---- MODULE Spec2Model ----
(***************************************************************************)
(* The bridge between the physics worker (the Host: worker.js and its      *)
(* successor) and the render side (the Transport: Provider and the hooks). *)
(* Two pairings of the sources are modelled over the same state:           *)
(*   SpecLegacy  Provider.tsx (sync-driven registry, rAF step loop)        *)
(*               talking to the worker `task`;                             *)
(*   Spec        the CannonWorkerAPI based Provider (frameHandler, event   *)
(*               handlers, useFrame loop) and hooks.ts talking to the      *)
(*               same `task`, extended by the parts of the worker that     *)
(*               the Provider relies on (frame.bodies, frame.active,       *)
(*               observations, events).                                    *)
(* Angles are counted in units of pi; a pose is kept as a position triple  *)
(* and a quaternion quad exactly as the buffers hold them.                 *)
(***************************************************************************)
EXTENDS Integers, Sequences, FiniteSets, TLC

----------------------------------------------------------------------------
(* Bounds of the model *)

\* What the application does in one behaviour: a mount, an unmount, a
\* re-render or an unsubscribe counts one, a call that posts a body
\* operation or subscribes, or a mount that throws, counts two.
MaxOps == 4
\* Replicas of the instanced handle (InstancedMesh.count).
InstanceCount == 2
\* Body slots of the transform buffers (the Provider's `size` prop).
size == 3

----------------------------------------------------------------------------
(* Plain values *)

Undefined == "undefined"

Range(s) == {s[i] : i \in 1..Len(s)}

\* Array.prototype.indexOf: first position (0-based) of x in s, -1 if absent.
indexOf(s, x) ==
  IF x \in Range(s) THEN (CHOOSE i \in 1..Len(s) : s[i] = x /\ \A j \in 1..(i-1) : s[j] # x) - 1
  ELSE 0 - 1

\* Quaternion.setFromEuler for a rotation about x, the angle in units of pi:
\* (sin(angle/2), 0, 0, cos(angle/2)).
setFromEuler(rotation) ==
  IF rotation[1] = 0 THEN <<0, 0, 0, 1>> ELSE <<1, 0, 0, 0>>

\* The Provider's defaults of the stepping: maxSubSteps = 10 and
\* stepSize = 1 / 60, that is 60 sub-steps to the unit of time.
maxSubSteps == 10
stepsPerUnit == 60

\* new Float32Array(n): n zeroes.
Float32Array(n) == [k \in 1..n |-> 0]

----------------------------------------------------------------------------
(* The Host: worker `task` *)

\* Shapes attached by the switch over the shape-type tag; an unrecognised
\* tag falls to `default: break` and attaches none.
KnownShapeTypes ==
  {"Box", "ConvexPolyhedron", "Cylinder", "Heightfield", "Particle", "Plane", "Sphere", "Trimesh"}

shapesOf(type) == IF type \in KnownShapeTypes THEN 1 ELSE 0

\* The cases that spread or destructure args (`...args`, `[v, f] = args`): a
\* value that is not iterable is a TypeError there.
ArgsSpreadingTypes ==
  {"Box", "ConvexPolyhedron", "Cylinder", "Heightfield", "Sphere", "Trimesh"}

\* world.bodies.map(body => body.uuid)
worldUuids(world) == [i \in 1..Len(world) |-> world[i].uuid]

\* self.postMessage
postMessage(h, msg) == [h EXCEPT !.out = Append(@, msg)]

\* An uncaught exception ends the running handler; what it did so far stays.
throw(h) == [h EXCEPT !.threw = TRUE]

\* syncBodies(): post the ordered identity list, then rebuild the table.
syncBodies(h) ==
  [postMessage(h, [op |-> "sync", bodies |-> worldUuids(h.world)])
     EXCEPT !.bodies = [u \in Range(worldUuids(h.world)) |-> u]]

\* (variant of 'init' that starts a new world)
taskInitRebuild(h, data) ==
  [h EXCEPT !.world = <<>>,
            !.params = [gravity |-> data.props.gravity,
                        tolerance |-> data.props.tolerance,
                        iterations |-> data.props.iterations,
                        allowSleep |-> data.props.allowSleep,
                        broadphase |-> data.props.broadphase],
            !.config = [step |-> data.props.step]]

\* case 'init'
taskInit(h, data) ==
  [h EXCEPT !.params = [gravity |-> data.props.gravity,
                        tolerance |-> data.props.tolerance,
                        iterations |-> data.props.iterations,
                        allowSleep |-> data.props.allowSleep,
                        broadphase |-> IF data.props.broadphase \in {"Naive", "SAP"}
                                         THEN data.props.broadphase ELSE "Naive"],
            !.config = [step |-> data.props.step]]

\* world.step(config.step): the engine's integration. Every body above the
\* ground falls one unit; a body on the ground is at rest.
worldStep(world) ==
  [i \in 1..Len(world) |->
     IF world[i].position[2] > 0
       THEN [world[i] EXCEPT !.position[2] = @ - 1]
       ELSE world[i]]

\* The loop writing body i's position at 3*i and quaternion at 4*i; a write
\* past the end of a typed array is dropped.
writePositions(world, positions) ==
  [k \in 1..Len(positions) |->
     IF (k - 1) \div 3 < Len(world)
       THEN world[((k - 1) \div 3) + 1].position[((k - 1) % 3) + 1]
       ELSE positions[k]]

writeQuaternions(world, quaternions) ==
  [k \in 1..Len(quaternions) |->
     IF (k - 1) \div 4 < Len(world)
       THEN world[((k - 1) \div 4) + 1].quaternion[((k - 1) % 4) + 1]
       ELSE quaternions[k]]

\* (variant of 'step' that steps the world and posts no frame)
taskStepUnanswered(h, data) == [h EXCEPT !.world = worldStep(@)]

\* (variant of 'step' that lets the world catch up with the elapsed time, one
\* sub-step per stepSize)
taskStepCatchUp(h, data) ==
  LET subSteps == data.props.timeSinceLastCalled * stepsPerUnit
      stepped == [i \in 1..Len(h.world) |->
                    [h.world[i] EXCEPT !.position[2] = IF @ > subSteps THEN @ - subSteps ELSE 0]]
  IN postMessage([h EXCEPT !.world = stepped],
                 [op |-> "frame",
                  positions |-> writePositions(stepped, data.positions),
                  quaternions |-> writeQuaternions(stepped, data.quaternions)])

\* case 'step'
taskStep(h, data) ==
  LET stepped == worldStep(h.world) IN
  postMessage([h EXCEPT !.world = stepped],
              [op |-> "frame",
               positions |-> writePositions(stepped, data.positions),
               quaternions |-> writeQuaternions(stepped, data.quaternions)])

\* (variant of 'addBody' that gives up on a tag it does not recognise)
taskAddBodyKnownOnly(h, data, sync) ==
  LET body == [uuid |-> data.uuid, shapes |-> 1,
               position |-> data.props.position,
               quaternion |-> setFromEuler(data.props.rotation)]
      added == IF data.type \in KnownShapeTypes
                 THEN [h EXCEPT !.world = Append(@, body)] ELSE h
  IN IF sync THEN syncBodies(added) ELSE added

\* case 'addBody'
taskAddBody(h, data, sync) ==
  LET args == IF "args" \in DOMAIN data.props THEN data.props.args
              ELSE [isArray |-> TRUE, value |-> <<>>]
      position == IF "position" \in DOMAIN data.props THEN data.props.position ELSE <<0, 0, 0>>
      rotation == IF "rotation" \in DOMAIN data.props THEN data.props.rotation ELSE <<0, 0, 0>>
      body == [uuid |-> data.uuid,
               shapes |-> shapesOf(data.type),
               position |-> position,
               quaternion |-> setFromEuler(rotation)]
      added == [h EXCEPT !.world = Append(@, body)]
  IN IF data.type \in ArgsSpreadingTypes /\ ~args.isArray THEN throw(h)
     ELSE IF sync THEN syncBodies(added) ELSE added

RECURSIVE addBodiesFrom(_, _, _)
addBodiesFrom(h, data, i) ==
  IF i > Len(data.uuid) \/ h.threw THEN h
  ELSE addBodiesFrom(
         taskAddBody(h, [op |-> "addBody", type |-> data.type,
                         uuid |-> data.uuid[i], props |-> data.props[i]], FALSE),
         data, i + 1)

\* (variant of 'addBodies' that lets every member republish)
addBodiesSyncEach(h, data) ==
  LET RECURSIVE each(_, _)
      each(g, i) ==
        IF i > Len(data.uuid) \/ g.threw THEN g
        ELSE each(taskAddBody(g, [op |-> "addBody", type |-> data.type,
                                  uuid |-> data.uuid[i], props |-> data.props[i]], TRUE),
                  i + 1)
  IN each(h, 1)

\* case 'addBodies'
taskAddBodies(h, data) ==
  LET added == addBodiesFrom(h, data, 1) IN
  IF added.threw THEN added ELSE syncBodies(added)

\* (variant of world.removeBody that drops the last body of the world, whatever
\* body it is given)
worldRemoveLast(h, uuid) ==
  IF uuid \notin DOMAIN h.bodies THEN throw(h)
  ELSE [h EXCEPT !.world = SubSeq(@, 1, Len(@) - 1)]

\* world.removeBody(body): cannon-es clears body.world first, so an undefined
\* argument is a TypeError; a body that is not in the world is left alone.
worldRemoveBody(h, uuid) ==
  IF uuid \notin DOMAIN h.bodies THEN throw(h)
  ELSE [h EXCEPT !.world = SelectSeq(@, LAMBDA b : b.uuid # h.bodies[uuid])]

\* case 'removeBody'
taskRemoveBody(h, data, sync) ==
  LET removed == worldRemoveBody(h, data.uuid) IN
  IF removed.threw THEN removed
  ELSE IF sync THEN syncBodies(removed) ELSE removed

RECURSIVE removeBodiesFrom(_, _, _)
removeBodiesFrom(h, data, i) ==
  IF i > Len(data.uuid) \/ h.threw THEN h
  ELSE removeBodiesFrom(taskRemoveBody(h, [op |-> "removeBody", uuid |-> data.uuid[i]], TRUE),
                        data, i + 1)

\* case 'removeBodies'
taskRemoveBodies(h, data) ==
  LET removed == removeBodiesFrom(h, data, 1) IN
  IF removed.threw THEN removed ELSE syncBodies(removed)

\* bodies[uuid].position.set(...): reading a property of undefined throws.
taskSetPosition(h, data) ==
  IF data.uuid \notin DOMAIN h.bodies THEN throw(h)
  ELSE [h EXCEPT !.world =
          [i \in 1..Len(@) |->
             IF @[i].uuid = h.bodies[data.uuid]
               THEN [@[i] EXCEPT !.position = data.props] ELSE @[i]]]

\* bodies[uuid].quaternion.setFromEuler(...)
taskSetRotation(h, data) ==
  IF data.uuid \notin DOMAIN h.bodies THEN throw(h)
  ELSE [h EXCEPT !.world =
          [i \in 1..Len(@) |->
             IF @[i].uuid = h.bodies[data.uuid]
               THEN [@[i] EXCEPT !.quaternion = setFromEuler(data.props)] ELSE @[i]]]

\* function task(e, sync = true): the switch over e.data.op
task(h, data, sync) ==
  CASE data.op = "init" -> taskInit(h, data)
    [] data.op = "step" -> taskStep(h, data)
    [] data.op = "addBody" -> taskAddBody(h, data, sync)
    [] data.op = "addBodies" -> taskAddBodies(h, data)
    [] data.op = "removeBody" -> taskRemoveBody(h, data, sync)
    [] data.op = "removeBodies" -> taskRemoveBodies(h, data)
    [] data.op = "setPosition" -> taskSetPosition(h, data)
    [] data.op = "setRotation" -> taskSetRotation(h, data)
    [] OTHER -> h

----------------------------------------------------------------------------
(* The handles of the application and the hooks (hooks.ts) *)

\* Two entities: a plain Object3D "a" created with an onCollide callback, and
\* an InstancedMesh "m" with InstanceCount replicas and no callback.
Handles == {"a", "m"}

isInstancedMesh(object) == object = "m"

\* objectCount of useBody
objectCount(object) == IF isInstancedMesh(object) THEN InstanceCount ELSE 1

\* The uuid list of useBody: `${object.uuid}/${i}` per replica, or [object.uuid].
uuidList(object) ==
  IF isInstancedMesh(object)
    THEN [i \in 1..objectCount(object) |-> object \o "/" \o ToString(i - 1)]
    ELSE <<object>>

\* getUUID(ref, index): null while the ref is unattached; index is <<>> when
\* undefined and <<i>> otherwise.
getUUID(attachedRef, object, index) ==
  IF ~attachedRef THEN Undefined
  ELSE IF index = <<>> THEN object ELSE object \o "/" \o ToString(index[1])

\* The args the application hands to the hook of a handle: the extents of
\* the box "a"; for the spheres of "m" a radius in an array, or a value that
\* is no array.
ArgsGiven(object) ==
  IF object = "a" THEN {[isArray |-> TRUE, value |-> <<1, 1, 1>>]}
  ELSE {[isArray |-> TRUE, value |-> <<1>>], [isArray |-> FALSE, value |-> <<>>]}

\* The application's fn(i): the body props of member i (0-based) of a handle,
\* with the args it gives. Every body starts one unit above the ground.
fn(object, i, args) ==
  [args |-> args,
   position |-> <<(IF object = "a" THEN 1 ELSE 2), 1, i>>,
   rotation |-> <<0, 0, 0>>,
   onCollide |-> IF object = "a" THEN "onCollide_a" ELSE Undefined,
   onCollideBegin |-> IF object = "a" THEN "onCollideBegin_a" ELSE Undefined,
   onCollideEnd |-> Undefined]

\* The shape type each hook passes to useBody (useBox, useSphere).
bodyType(object) == IF object = "a" THEN "Box" ELSE "Sphere"

\* (variant of the argsFn of useSphere that passes the args on as useBox does)
argsFnUnchecked(type, args) == [threw |-> FALSE, args |-> args]

\* The argsFn each hook passes to useBody: useSphere throws unless the args
\* are an array and keeps the radius, useBox passes the args on.
argsFn(type, args) ==
  IF type = "Sphere"
    THEN IF ~args.isArray THEN [threw |-> TRUE, args |-> <<>>]
         ELSE [threw |-> FALSE, args |-> [isArray |-> TRUE, value |-> <<args.value[1]>>]]
    ELSE [threw |-> FALSE, args |-> args]

\* object.scale of the handles, and the unit scale `s` of the Provider.
objectScale(object) == <<2, 2, 2>>
s == <<1, 1, 1>>

\* Matrix4.compose(position, quaternion, scale)
compose(v, q, scale) == [position |-> v, quaternion |-> q, scale |-> scale]

\* m.identity()
identity == compose(<<0, 0, 0>>, <<0, 0, 0, 1>>, <<1, 1, 1>>)

\* prepare(object, props) followed by reading object.matrix; `temp` has unit scale.
prepare(scale, props) == compose(props.position, setFromEuler(props.rotation), scale)

\* An ordered table (a JS object with string keys, iterated in insertion order)
\* is a sequence of <<key, value>>.
keysOf(table) == {table[k][1] : k \in 1..Len(table)}
tableSet(table, key, value) ==
  IF key \in keysOf(table)
    THEN [k \in 1..Len(table) |-> IF table[k][1] = key THEN <<key, value>> ELSE table[k]]
    ELSE Append(table, <<key, value>>)
tableDelete(table, key) == SelectSeq(table, LAMBDA e : e[1] # key)
tableGet(table, key) ==
  IF key \in keysOf(table)
    THEN (CHOOSE e \in Range(table) : e[1] = key)[2]
    ELSE Undefined

\* (variant of setupCollision that installs a record only for an entity that
\* was given a callback)
setupCollisionIfAny(events, props, uuid) ==
  IF props.onCollide = Undefined /\ props.onCollideBegin = Undefined
       /\ props.onCollideEnd = Undefined
    THEN events
    ELSE [u \in DOMAIN events \cup {uuid} |->
            IF u = uuid
              THEN [collide |-> props.onCollide,
                    collideBegin |-> props.onCollideBegin,
                    collideEnd |-> props.onCollideEnd]
              ELSE events[u]]

\* setupCollision(events, props, uuid)
setupCollision(events, props, uuid) ==
  [u \in DOMAIN events \cup {uuid} |->
     IF u = uuid
       THEN [collide |-> props.onCollide,
             collideBegin |-> props.onCollideBegin,
             collideEnd |-> props.onCollideEnd]
       ELSE events[u]]

\* delete events[id]
deleteKey(f, key) == [u \in DOMAIN f \ {key} |-> f[u]]

\* (variant of the descriptor that spreads the props as they are)
serializablePropsRaw(props, args) == [props EXCEPT !.args = args]

\* The body descriptor sent to the host: callbacks dropped, onCollide a flag,
\* args as argsFn returned them.
serializableProps(props, args) ==
  [args |-> args,
   position |-> props.position,
   rotation |-> props.rotation,
   onCollide |-> props.onCollide # Undefined]

----------------------------------------------------------------------------
(* The Provider built on CannonWorkerAPI: handlers *)

\* v.fromArray(array, offset): n consecutive elements; past the end of a typed
\* array the read yields undefined.
fromArray(array, offset, n) ==
  [c \in 1..n |-> IF offset + c <= Len(array) THEN array[offset + c] ELSE Undefined]

\* The matrix composed by apply(index, positions, quaternions, object) for a
\* defined index, with the scale it is given (object.scale or s).
applyMatrix(index, positions, quaternions, scale) ==
  compose(fromArray(positions, index * 3, 3), fromArray(quaternions, index * 4, 4), scale)

\* (variant of apply that composes with the unit scale `s` for a handle too)
applyToObjectUnitScale(t, data, ref) ==
  IF ref \in DOMAIN t.bodiesCurrent
    THEN [t EXCEPT
            !.objects[ref].matrixAutoUpdate = FALSE,
            !.objects[ref].matrix =
               applyMatrix(t.bodiesCurrent[ref], data.positions, data.quaternions, s),
            !.log = Append(@, [kind |-> "matrix", object |-> ref, slot |-> 0,
                               index |-> t.bodiesCurrent[ref]])]
    ELSE t

\* (variant of apply that copies what it composed onto the handle even
\* without an index: the identity matrix)
applyToObjectUnchecked(t, data, ref) ==
  [t EXCEPT
     !.objects[ref].matrixAutoUpdate = FALSE,
     !.objects[ref].matrix =
        IF ref \in DOMAIN t.bodiesCurrent
          THEN applyMatrix(t.bodiesCurrent[ref], data.positions, data.quaternions, objectScale(ref))
          ELSE identity,
     !.log = Append(@, [kind |-> "matrix", object |-> ref, slot |-> 0,
                        index |-> IF ref \in DOMAIN t.bodiesCurrent
                                    THEN t.bodiesCurrent[ref] ELSE 0 - 1])]

\* apply(bodies.current[ref.uuid], positions, quaternions, ref) on a plain
\* handle: with an undefined index nothing is written.
applyToObject(t, data, ref) ==
  IF ref \in DOMAIN t.bodiesCurrent
    THEN [t EXCEPT
            !.objects[ref].matrixAutoUpdate = FALSE,
            !.objects[ref].matrix =
               applyMatrix(t.bodiesCurrent[ref], data.positions, data.quaternions, objectScale(ref)),
            !.log = Append(@, [kind |-> "matrix", object |-> ref, slot |-> 0,
                               index |-> t.bodiesCurrent[ref]])]
    ELSE t

\* One pass of `for (let i = 0; i < ref.count; i++)` from replica i on.
RECURSIVE replicaLoop(_, _, _, _)
replicaLoop(t, data, ref, i) ==
  IF i >= objectCount(ref) THEN t
  ELSE
    LET id == ref \o "/" \o ToString(i)
        written ==
          IF id \in DOMAIN t.bodiesCurrent
            THEN [t EXCEPT
                    !.objects[ref].instanceMatrix[i + 1] =
                       applyMatrix(t.bodiesCurrent[id], data.positions, data.quaternions, s),
                    !.log = Append(@, [kind |-> "setMatrixAt", object |-> ref, slot |-> i,
                                       index |-> t.bodiesCurrent[id]])]
            ELSE t
        marked == [written EXCEPT
                     !.objects[ref].needsUpdate = TRUE,
                     !.log = Append(@, [kind |-> "needsUpdate", object |-> ref, slot |-> i,
                                        index |-> 0])]
    IN replicaLoop(marked, data, ref, i + 1)

\* `for (const ref of Object.values(refs))` from entry k on.
RECURSIVE refsLoop(_, _, _, _)
refsLoop(t, data, refs, k) ==
  IF k > Len(refs) THEN t
  ELSE
    LET ref == refs[k][2] IN
    refsLoop(IF isInstancedMesh(ref) THEN replicaLoop(t, data, ref, 0)
                                     ELSE applyToObject(t, data, ref),
             data, refs, k + 1)

\* `bodies.current[uuids[i]] = i` for every i: entries are overwritten or
\* added, none is deleted.
registryPatch(bodiesCurrent, uuids) ==
  [u \in DOMAIN bodiesCurrent \cup Range(uuids) |->
     IF u \in Range(uuids)
       THEN (CHOOSE i \in 1..Len(uuids) : uuids[i] = u /\ \A j \in (i + 1)..Len(uuids) : uuids[j] # u) - 1
       ELSE bodiesCurrent[u]]

\* (variant of the lookup that takes whatever callback is stored under the id)
subscriptionCallbackAnyType(subscriptions, id, type) ==
  IF id \in DOMAIN subscriptions
    THEN subscriptions[id][CHOOSE stored \in DOMAIN subscriptions[id] : TRUE]
    ELSE Undefined

\* (subscriptions[id] || {})[type]
subscriptionCallback(subscriptions, id, type) ==
  IF id \in DOMAIN subscriptions /\ type \in DOMAIN subscriptions[id]
    THEN subscriptions[id][type] ELSE Undefined

\* observations.forEach(([id, value, type]) => ...) from observation k on.
\* The log also keeps the observations that found no callback.
RECURSIVE observationsLoop(_, _, _, _)
observationsLoop(t, subscriptions, observations, k) ==
  IF k > Len(observations) THEN t
  ELSE
    LET id == observations[k][1]
        value == observations[k][2]
        type == observations[k][3]
        cb == subscriptionCallback(subscriptions, id, type)
    IN observationsLoop(
         [t EXCEPT !.log = Append(@, [kind |-> IF cb # Undefined THEN "observation" ELSE "unrouted",
                                      id |-> id, type |-> type, value |-> value, cb |-> cb])],
         subscriptions, observations, k + 1)

\* invalidate()
invalidate(t) == [t EXCEPT !.log = Append(@, [kind |-> "invalidate"])]

\* The handler's entry in the log: a frame was received.
received(t, data) == [t EXCEPT !.log = Append(@, [kind |-> "frame", active |-> data.active])]

\* (variant of the frame handler that applies a frame whatever `active` says)
frameHandlerAlwaysActive(t, ctx, data) ==
  LET patched == [received(t, data) EXCEPT !.bodiesCurrent = registryPatch(@, data.bodies)]
      observed == observationsLoop(patched, ctx.subscriptions, data.observations, 1)
      applied == refsLoop(observed, data, ctx.refs, 1)
  IN IF ctx.shouldInvalidate THEN invalidate(applied) ELSE applied

\* frameHandler
frameHandler(t, ctx, data) ==
  LET uuids == IF "bodies" \in DOMAIN data THEN data.bodies ELSE <<>>
      patched == [received(t, data) EXCEPT !.bodiesCurrent = registryPatch(@, uuids)]
      observed == observationsLoop(patched, ctx.subscriptions, data.observations, 1)
  IN IF data.active
       THEN LET applied == refsLoop(observed, data, ctx.refs, 1)
            IN IF ctx.shouldInvalidate THEN invalidate(applied) ELSE applied
       ELSE observed

\* events[uuid]?.name
eventCallback(events, uuid, name) ==
  IF uuid \in DOMAIN events THEN events[uuid][name] ELSE Undefined

\* collideHandler
collideHandler(t, ctx, data) ==
  LET cb == eventCallback(ctx.events, data.target, "collide") IN
  IF cb # Undefined
    THEN [t EXCEPT !.log = Append(@, [kind |-> "collide", cb |-> cb,
                                      body |-> tableGet(ctx.refs, data.body),
                                      bi |-> tableGet(ctx.refs, data.contact.bi),
                                      bj |-> tableGet(ctx.refs, data.contact.bj),
                                      target |-> tableGet(ctx.refs, data.target)])]
    ELSE t

\* One half of collideBeginHandler and collideEndHandler: the callback of
\* `owner` for the event type, called with the handles refs gives for the
\* other participant and for the owner.
participantCallback(t, ctx, type, owner, other) ==
  LET cb == eventCallback(ctx.events, owner, type) IN
  IF cb # Undefined
    THEN [t EXCEPT !.log = Append(@, [kind |-> type, cb |-> cb, owner |-> owner,
                                      body |-> tableGet(ctx.refs, other),
                                      target |-> tableGet(ctx.refs, owner)])]
    ELSE t

\* collideBeginHandler
collideBeginHandler(t, ctx, data) ==
  participantCallback(participantCallback(t, ctx, "collideBegin", data.bodyA, data.bodyB),
                      ctx, "collideBegin", data.bodyB, data.bodyA)

\* collideEndHandler
collideEndHandler(t, ctx, data) ==
  participantCallback(participantCallback(t, ctx, "collideEnd", data.bodyA, data.bodyB),
                      ctx, "collideEnd", data.bodyB, data.bodyA)

----------------------------------------------------------------------------
(* The legacy Provider (Provider.tsx): handlers *)

\* (variant of the sync handler that patches the registry instead of replacing it)
syncHandlerPatch(bodiesCurrent, list) ==
  [u \in DOMAIN bodiesCurrent \cup Range(list) |->
     IF u \in Range(list) THEN indexOf(list, u) ELSE bodiesCurrent[u]]

\* case 'sync': bodies.current = e.data.bodies.reduce((acc, id) =>
\*   ({...acc, [id]: e.data.bodies.indexOf(id)}), {})
syncHandler(bodiesCurrent, list) ==
  [u \in Range(list) |-> indexOf(list, u)]

----------------------------------------------------------------------------
(* State *)

VARIABLES
  world,            \* Host: world.bodies, in the engine's order
  bodies,           \* Host: the identity table `bodies`
  config,           \* Host: config (step)
  params,           \* Host: the world's global parameters set by init
  observed,         \* Host: the subscriptions it reports on, by id
  toHost,           \* messages posted to the worker, in order
  toTransport,      \* messages posted by the worker, in order
  refs,             \* Transport: refs, identity -> handle, in insertion order
  events,           \* Transport: events, identity -> callbacks
  subscriptions,    \* Transport: subscriptions, id -> {type: callback}
  incrementingId,   \* hooks.ts: incrementingId
  unsubscribers,    \* ids whose unsubscribe function has not been called yet
  cancelled,        \* ids whose unsubscribe function has run
  bodiesCurrent,    \* Transport: bodies.current, identity -> index
  buffers,          \* Transport: the transform buffers (empty while transferred)
  attached,         \* handle -> its ref.current is set
  mounted,          \* handle -> the layout effect of useBody is in force
  objects,          \* handle -> matrix, instance matrices and dirty flag
  rafPending,       \* legacy Provider: requestAnimationFrame(loop) is pending
  isPaused,         \* Provider prop isPaused
  timeSinceLastCalled, \* Provider: the accumulator of loop
  shouldInvalidate, \* Provider prop shouldInvalidate
  terminated,       \* the Provider's cleanup has run: worker.terminate()
  hooked,           \* hooks.ts: the uuid and the live effect of every dependent hook
  ops,              \* calls made by the application so far
  log               \* what the last handler did: writes, callbacks, invalidate,
                    \* an uncaught exception

hostVars == <<world, bodies, config, params, observed>>
tableVars == <<refs, events, subscriptions, incrementingId, unsubscribers, cancelled>>
viewVars == <<bodiesCurrent, buffers, objects>>
propVars == <<isPaused, shouldInvalidate, timeSinceLastCalled>>
lifeVars == <<terminated, hooked>>
vars == <<world, bodies, config, params, observed, toHost, toTransport, refs, events,
          subscriptions, incrementingId, unsubscribers, cancelled, bodiesCurrent, buffers,
          attached, mounted, objects, rafPending, isPaused, shouldInvalidate,
          timeSinceLastCalled, terminated, hooked, ops, log>>

\* The Provider's default props, as sent by init.
initProps ==
  [gravity |-> <<0, 0 - 10, 0>>, tolerance |-> "0.001", step |-> "1/60", iterations |-> "5",
   broadphase |-> "Naive", allowSleep |-> TRUE]

\* The buffers allocated for `size` bodies, and what is left of them once
\* their ArrayBuffers have been transferred.
allocatedBuffers == [positions |-> Float32Array(size * 3), quaternions |-> Float32Array(size * 4)]
detachedBuffers == [positions |-> <<>>, quaternions |-> <<>>]
holdsBuffers(b) == Len(b.positions) # 0 \/ Len(b.quaternions) # 0

\* worker.postMessage({op: 'step', ...buffers}, [buffers...])
stepMessage(b) == [op |-> "step", positions |-> b.positions, quaternions |-> b.quaternions]

\* (variant of loop that posts the step without a transfer list)
legacyLoopCopy(b, q) == [buffers |-> b, toHost |-> Append(q, stepMessage(b))]

\* function loop(): the buffers are transferred with the step; posting
\* detached buffers throws and posts nothing.
legacyLoop(b, q) ==
  IF holdsBuffers(b)
    THEN [buffers |-> detachedBuffers, toHost |-> Append(q, stepMessage(b))]
    ELSE [buffers |-> b, toHost |-> q]

\* The dependent hooks of the application, one of each kind: nothing
\* rendered yet, no effect in force.
HookKinds == {"Constraint", "Spring", "Ray", "RaycastVehicle", "ContactMaterial"}
noHooks == [generated |-> 0,
            hook |-> [kind \in HookKinds |-> [uuid |-> Undefined, effect |-> <<>>]]]

InitCommon ==
  /\ world = <<>>
  /\ bodies = <<>>
  /\ config = [step |-> "1/60"]
  /\ params = [gravity |-> <<0, 0, 0>>, tolerance |-> "default", iterations |-> "default",
               allowSleep |-> FALSE, broadphase |-> "Naive"]
  /\ observed = <<>>
  /\ toTransport = <<>>
  /\ refs = <<>>
  /\ events = <<>>
  /\ subscriptions = <<>>
  /\ incrementingId = 0
  /\ unsubscribers = {}
  /\ cancelled = {}
  /\ bodiesCurrent = <<>>
  /\ attached = [o \in Handles |-> FALSE]
  /\ mounted = [o \in Handles |-> FALSE]
  /\ objects = [o \in Handles |->
                  [matrix |-> identity,
                   matrixAutoUpdate |-> TRUE,
                   instanceMatrix |-> IF isInstancedMesh(o)
                                        THEN [i \in 1..objectCount(o) |-> identity] ELSE <<>>,
                   needsUpdate |-> FALSE]]
  /\ isPaused = FALSE
  /\ timeSinceLastCalled = 0
  /\ terminated = FALSE
  /\ hooked = noHooks
  /\ ops = 0
  /\ log = <<>>

\* After the Provider's layout effect: init posted, the handlers attached,
\* the buffers still with the Transport.
Init ==
  /\ InitCommon
  /\ shouldInvalidate \in BOOLEAN
  /\ toHost = <<[op |-> "init", props |-> initProps]>>
  /\ buffers = allocatedBuffers
  /\ rafPending = FALSE

\* After the legacy Provider's effect: init posted, then loop() called once.
InitLegacy ==
  /\ InitCommon
  /\ shouldInvalidate = TRUE
  /\ LET sent == legacyLoop(allocatedBuffers, <<[op |-> "init", props |-> initProps]>>) IN
       /\ toHost = sent.toHost
       /\ buffers = sent.buffers
  /\ rafPending = FALSE

----------------------------------------------------------------------------
(* hooks.ts: what the application can do *)

\* The props mapping of useBody from member i on: each member is prepared,
\* registered in refs and events, and its args go through argsFn, whose
\* exception ends the mapping with what was done so far.
RECURSIVE propsMapping(_, _, _, _)
propsMapping(u, object, args, i) ==
  IF i > Len(uuidList(object)) THEN u
  ELSE
    LET id == uuidList(object)[i]
        props == fn(object, i - 1, args)
        given == argsFn(bodyType(object), props.args)
        registered ==
          [u EXCEPT
             !.objects = IF isInstancedMesh(object)
                           THEN [@ EXCEPT ![object].instanceMatrix[i] = prepare(s, props),
                                          ![object].needsUpdate = TRUE]
                           ELSE [@ EXCEPT ![object].matrix = prepare(objectScale(object), props)],
             !.refs = tableSet(@, id, object),
             !.events = setupCollision(@, props, id)]
    IN IF given.threw
         THEN [registered EXCEPT !.threw = TRUE]
         ELSE propsMapping([registered EXCEPT
                              !.props = Append(@, serializableProps(props, given.args))],
                           object, args, i + 1)

\* The layout effect of useBody runs for a handle whose fn gives these args.
useBodyEffect(object, args) ==
  /\ ~terminated
  /\ ops < MaxOps
  /\ ~mounted[object]
  /\ LET u == propsMapping([objects |-> objects, refs |-> refs, events |-> events,
                            props |-> <<>>, threw |-> FALSE], object, args, 1)
     IN /\ ops' = ops + (IF u.threw THEN 2 ELSE 1)
        /\ ops' <= MaxOps
        /\ refs' = u.refs
        /\ events' = u.events
        /\ objects' = u.objects
        /\ toHost' = IF u.threw THEN toHost
                     ELSE Append(toHost, [op |-> "addBodies",
                                          props |-> u.props,
                                          type |-> bodyType(object),
                                          uuid |-> uuidList(object)])
        /\ mounted' = [mounted EXCEPT ![object] = ~u.threw]
        /\ log' = IF u.threw THEN <<[kind |-> "Error"]>> ELSE <<>>
  /\ attached' = [attached EXCEPT ![object] = TRUE]
  /\ UNCHANGED <<hostVars, toTransport, subscriptions, incrementingId, unsubscribers, cancelled,
                 bodiesCurrent, buffers, rafPending, propVars, lifeVars>>

\* The cleanup of that effect (unmount, or a change of deps).
useBodyCleanup(object) ==
  /\ ~terminated
  /\ ops < MaxOps
  /\ mounted[object]
  /\ LET uuid == uuidList(object)
         RECURSIVE unregister(_, _, _)
         unregister(r, e, i) ==
           IF i > Len(uuid) THEN <<r, e>>
           ELSE unregister(tableDelete(r, uuid[i]), deleteKey(e, uuid[i]), i + 1)
         unregistered == unregister(refs, events, 1)
     IN /\ refs' = unregistered[1]
        /\ events' = unregistered[2]
        /\ toHost' = Append(toHost, [op |-> "removeBodies", uuid |-> uuid])
  /\ mounted' = [mounted EXCEPT ![object] = FALSE]
  /\ ops' = ops + 1
  /\ log' = <<>>
  /\ UNCHANGED <<hostVars, toTransport, subscriptions, incrementingId, unsubscribers, cancelled,
                 bodiesCurrent, buffers, attached, objects, rafPending, propVars, lifeVars>>

\* The indices the application passes to api.at(); <<>> is the handle's own api.
Indices == {<<>>, <<0>>}

\* makeVec('position', index).set(x, y, z)
apiPositionSet(object, index) ==
  /\ ~terminated
  /\ ops + 2 <= MaxOps
  /\ LET uuid == getUUID(attached[object], object, index) IN
       toHost' = IF uuid # Undefined
                   THEN Append(toHost, [op |-> "setPosition", props |-> <<5, 1, 5>>, uuid |-> uuid])
                   ELSE toHost
  /\ ops' = ops + 2
  /\ log' = <<>>
  /\ UNCHANGED <<hostVars, toTransport, tableVars, viewVars, attached, mounted, rafPending,
                 propVars, lifeVars>>

\* makeRotation(undefined).set(x, y, z)
apiRotationSet(object) ==
  /\ ~terminated
  /\ ops + 2 <= MaxOps
  /\ LET uuid == getUUID(attached[object], object, <<>>) IN
       toHost' = IF uuid # Undefined
                   THEN Append(toHost, [op |-> "setRotation", props |-> <<1, 0, 0>>, uuid |-> uuid])
                   ELSE toHost
  /\ ops' = ops + 2
  /\ log' = <<>>
  /\ UNCHANGED <<hostVars, toTransport, tableVars, viewVars, attached, mounted, rafPending,
                 propVars, lifeVars>>

\* (variant of the id counter that is declared inside the subscribe function)
firstSubscriptionId(counter) == 0

\* The value of `incrementingId++`.
nextSubscriptionId(counter) == counter

\* quaternionToRotation(callback)
quaternionToRotation(callback) == callback \o " of rotation"

\* The body shared by the subscribe functions: a fresh id, the table entry
\* under it, the subscribe message when the ref resolves to an identity.
subscribeAs(object, type, callback) ==
  /\ ops + 2 <= MaxOps
  /\ LET id == nextSubscriptionId(incrementingId)
         uuid == getUUID(attached[object], object, <<>>)
     IN /\ incrementingId' = incrementingId + 1
        /\ subscriptions' = [k \in DOMAIN subscriptions \cup {id} |->
                               IF k = id THEN [t \in {type} |-> callback] ELSE subscriptions[k]]
        /\ toHost' = IF uuid # Undefined
                       THEN Append(toHost, [op |-> "subscribe",
                                            props |-> [id |-> id, target |-> "bodies", type |-> type],
                                            uuid |-> uuid])
                       ELSE toHost
        /\ unsubscribers' = unsubscribers \cup {id}
  /\ ops' = ops + 2
  /\ log' = <<>>
  /\ UNCHANGED <<hostVars, toTransport, refs, events, cancelled, viewVars, attached, mounted,
                 rafPending, propVars, lifeVars>>

\* subscribe(ref, worker, subscriptions, type, undefined)(callback)
apiSubscribe(object, type) == subscribeAs(object, type, "callback")

\* makeRotation(undefined).subscribe(callback)
apiRotationSubscribe(object) ==
  subscribeAs(object, "quaternion", quaternionToRotation("callback"))

\* (variant of the unsubscribe function that leaves the table entry in place)
unsubscribeTableKept(subs, id) == subs

\* delete subscriptions[id]
unsubscribeTable(subs, id) == deleteKey(subs, id)

\* The function subscribe returned is called.
apiUnsubscribe(id) ==
  /\ ops < MaxOps
  /\ id \in unsubscribers
  /\ subscriptions' = unsubscribeTable(subscriptions, id)
  /\ toHost' = Append(toHost, [op |-> "unsubscribe", props |-> id])
  /\ unsubscribers' = unsubscribers \ {id}
  /\ cancelled' = cancelled \cup {id}
  /\ ops' = ops + 1
  /\ log' = <<>>
  /\ UNCHANGED <<hostVars, toTransport, refs, events, incrementingId, viewVars, attached, mounted,
                 rafPending, propVars, lifeVars>>

----------------------------------------------------------------------------
(* The Host's message handler *)

hostState == [world |-> world, bodies |-> bodies, config |-> config, params |-> params,
              out |-> <<>>, threw |-> FALSE]

\* What an uncaught exception of the handler leaves in the log.
uncaught(h) == IF h.threw THEN <<[kind |-> "TypeError"]>> ELSE <<>>

\* self.onmessage = e => task(e), for the worker as it is in the sources; a
\* terminated worker runs nothing.
hostOnMessage ==
  /\ ~terminated
  /\ toHost # <<>>
  /\ LET h == task(hostState, Head(toHost), TRUE) IN
       /\ world' = h.world
       /\ bodies' = h.bodies
       /\ config' = h.config
       /\ params' = h.params
       /\ toTransport' = toTransport \o h.out
       /\ log' = uncaught(h)
  /\ toHost' = Tail(toHost)
  /\ UNCHANGED <<observed, tableVars, viewVars, attached, mounted, rafPending, propVars, lifeVars, ops>>

\* The ids of a table in ascending order.
RECURSIVE ascending(_)
ascending(ids) ==
  IF ids = {} THEN <<>>
  ELSE LET least == CHOOSE i \in ids : \A j \in ids : i <= j
       IN <<least>> \o ascending(ids \ {least})

\* frame.observations: one [id, value, type] per subscription whose body exists.
frameObservations(w, subs) ==
  LET ids == ascending({id \in DOMAIN subs : subs[id].uuid \in Range(worldUuids(w))}) IN
  [k \in 1..Len(ids) |->
     <<ids[k],
       LET b == CHOOSE c \in Range(w) : c.uuid = subs[ids[k]].uuid
       IN IF subs[ids[k]].type = "quaternion" THEN b.quaternion ELSE b.position,
       subs[ids[k]].type>>]

\* frame.active: some body was awake (still falling) during the step.
frameActive(before) == \E i \in 1..Len(before) : before[i].position[2] > 0

\* The frame message of the worker the Provider is written against: the
\* buffers, the ordered identity list, active and the observations.
frameMessage(frame, before, after, subs) ==
  [op |-> "frame",
   positions |-> frame.positions,
   quaternions |-> frame.quaternions,
   bodies |-> worldUuids(after),
   active |-> frameActive(before),
   observations |-> frameObservations(after, subs)]

\* The collide events a step may report: any ordered pair of distinct bodies.
collideEvents(w) ==
  {[op |-> "event", type |-> "collide", target |-> w[i].uuid, body |-> w[j].uuid,
    contact |-> [bi |-> w[j].uuid, bj |-> w[i].uuid]] :
     <<i, j>> \in {p \in (1..Len(w)) \X (1..Len(w)) : p[1] # p[2]}}

\* The worker's handler of subscribe and unsubscribe.
hostSubscribe(subs, data) ==
  [k \in DOMAIN subs \cup {data.props.id} |->
     IF k = data.props.id THEN [uuid |-> data.uuid, type |-> data.props.type] ELSE subs[k]]

hostUnsubscribe(subs, data) == deleteKey(subs, data.props)

\* What of the worker's output reaches a handler of this Provider: it listens
\* to 'frame' and to the event types, and a sync finds no listener.
heard(out) == SelectSeq(out, LAMBDA msg : msg.op # "sync")

\* self.onmessage of the worker behind CannonWorkerAPI: `task`, with the
\* frame completed and the events of the step posted before it, plus the
\* subscription operations.
workerOnMessage ==
  /\ toHost # <<>>
  /\ LET data == Head(toHost)
         h == task(hostState, data, TRUE)
     IN /\ world' = h.world
        /\ bodies' = h.bodies
        /\ config' = h.config
        /\ params' = h.params
        /\ log' = uncaught(h)
        /\ observed' = CASE data.op = "subscribe" -> hostSubscribe(observed, data)
                         [] data.op = "unsubscribe" -> hostUnsubscribe(observed, data)
                         [] OTHER -> observed
        /\ IF data.op = "step"
             THEN \E reported \in {<<>>} \cup {<<e>> : e \in collideEvents(h.world)} :
                    toTransport' = toTransport \o reported
                                     \o <<frameMessage(h.out[1], world, h.world, observed)>>
             ELSE toTransport' = toTransport \o heard(h.out)
  /\ toHost' = Tail(toHost)
  /\ UNCHANGED <<tableVars, viewVars, attached, mounted, rafPending, propVars, lifeVars, ops>>

----------------------------------------------------------------------------
(* The Provider built on CannonWorkerAPI: actions *)

\* CannonWorkerAPI.step: the buffers go with the message; without them
\* (a step is in flight) nothing is posted.
workerStep(b, q, props) ==
  IF holdsBuffers(b)
    THEN [buffers |-> detachedBuffers,
          toHost |-> Append(q, [op |-> "step", positions |-> b.positions,
                                quaternions |-> b.quaternions, props |-> props])]
    ELSE [buffers |-> b, toHost |-> q]

\* The delta useFrame hands to its callback: one unit of frame time.
Deltas == {1}

\* What a tick that is not paused leaves in the log: the tick, then every
\* call of worker.step.
ticked(delta) == <<[kind |-> "tick", delta |-> delta]>>
stepCalled(elapsed) == [kind |-> "step", timeSinceLastCalled |-> elapsed]

\* (variant of loop that adds the delta to the accumulator before it looks at
\* isPaused)
loopAccumulating(c, delta) ==
  LET elapsed == c.timeSinceLastCalled + delta IN
  IF c.isPaused
    THEN [c EXCEPT !.timeSinceLastCalled = elapsed]
    ELSE LET sent == workerStep(c.buffers, c.toHost,
                                [maxSubSteps |-> maxSubSteps, stepSize |-> "1/60",
                                 timeSinceLastCalled |-> elapsed])
         IN [c EXCEPT !.timeSinceLastCalled = 0,
                      !.buffers = sent.buffers,
                      !.toHost = sent.toHost,
                      !.log = Append(ticked(delta), stepCalled(elapsed))]

\* loop(_, delta), on c = the closure's isPaused and timeSinceLastCalled, the
\* buffers and the worker's queue.
loopCallback(c, delta) ==
  IF c.isPaused THEN c
  ELSE LET elapsed == c.timeSinceLastCalled + delta
           sent == workerStep(c.buffers, c.toHost,
                              [maxSubSteps |-> maxSubSteps, stepSize |-> "1/60",
                               timeSinceLastCalled |-> elapsed])
       IN [c EXCEPT !.timeSinceLastCalled = 0,
                    !.buffers = sent.buffers,
                    !.toHost = sent.toHost,
                    !.log = Append(ticked(delta), stepCalled(elapsed))]

\* loop, the useFrame callback, for one rendered frame.
loop ==
  /\ \E delta \in Deltas :
       LET c == loopCallback([isPaused |-> isPaused,
                              timeSinceLastCalled |-> timeSinceLastCalled,
                              buffers |-> buffers, toHost |-> toHost, log |-> <<>>], delta)
       IN /\ buffers' = c.buffers
          /\ toHost' = c.toHost
          /\ timeSinceLastCalled' = c.timeSinceLastCalled
          /\ log' = c.log
  /\ UNCHANGED <<hostVars, toTransport, tableVars, bodiesCurrent, objects, attached, mounted,
                 rafPending, isPaused, shouldInvalidate, lifeVars, ops>>

\* The application re-renders the Provider with isPaused flipped.
setPaused ==
  /\ ops < MaxOps
  /\ isPaused' = ~isPaused
  /\ ops' = ops + 1
  /\ log' = <<>>
  /\ UNCHANGED <<hostVars, toHost, toTransport, tableVars, viewVars, attached, mounted,
                 rafPending, shouldInvalidate, timeSinceLastCalled, lifeVars>>

transportState == [bodiesCurrent |-> bodiesCurrent, objects |-> objects, log |-> <<>>]
transportContext == [refs |-> refs, events |-> events, subscriptions |-> subscriptions,
                     shouldInvalidate |-> shouldInvalidate]

\* A frame arrives: CannonWorkerAPI takes the buffers back and emits 'frame'.
onFrame ==
  /\ toTransport # <<>>
  /\ Head(toTransport).op = "frame"
  /\ LET data == Head(toTransport)
         t == frameHandler(transportState, transportContext, data)
     IN /\ buffers' = [positions |-> data.positions, quaternions |-> data.quaternions]
        /\ bodiesCurrent' = t.bodiesCurrent
        /\ objects' = t.objects
        /\ log' = t.log
  /\ toTransport' = Tail(toTransport)
  /\ UNCHANGED <<hostVars, toHost, tableVars, attached, mounted, rafPending, propVars, lifeVars, ops>>

\* A collide event arrives and is emitted to collideHandler.
onCollide ==
  /\ toTransport # <<>>
  /\ Head(toTransport).op = "event"
  /\ Head(toTransport).type = "collide"
  /\ log' = collideHandler(transportState, transportContext, Head(toTransport)).log
  /\ toTransport' = Tail(toTransport)
  /\ UNCHANGED <<hostVars, toHost, tableVars, viewVars, attached, mounted, rafPending, propVars, lifeVars,
                 ops>>

----------------------------------------------------------------------------
(* The legacy Provider (Provider.tsx): actions *)

\* The animation frame requested by the frame handler runs loop.
rafLoop ==
  /\ rafPending
  /\ rafPending' = FALSE
  /\ LET sent == legacyLoop(buffers, toHost) IN
       /\ buffers' = sent.buffers
       /\ toHost' = sent.toHost
  /\ log' = <<>>
  /\ UNCHANGED <<hostVars, toTransport, tableVars, bodiesCurrent, objects, attached, mounted,
                 propVars, lifeVars, ops>>

\* case 'frame'
legacyOnFrame ==
  /\ toTransport # <<>>
  /\ Head(toTransport).op = "frame"
  /\ LET data == Head(toTransport) IN
       /\ buffers' = [positions |-> data.positions, quaternions |-> data.quaternions]
       /\ rafPending' = TRUE
       /\ log' = IF "active" \in DOMAIN data /\ data.active
                   THEN <<[kind |-> "invalidate"]>> ELSE <<>>
  /\ toTransport' = Tail(toTransport)
  /\ UNCHANGED <<hostVars, toHost, tableVars, bodiesCurrent, objects, attached, mounted,
                 propVars, lifeVars, ops>>

\* case 'sync'
legacyOnSync ==
  /\ toTransport # <<>>
  /\ Head(toTransport).op = "sync"
  /\ bodiesCurrent' = syncHandler(bodiesCurrent, Head(toTransport).bodies)
  /\ toTransport' = Tail(toTransport)
  /\ log' = <<>>
  /\ UNCHANGED <<hostVars, toHost, tableVars, buffers, objects, attached, mounted, rafPending,
                 propVars, lifeVars, ops>>

\* The cleanup of the Provider's effect, when the application unmounts it:
\* worker.terminate(). The worker stops and the messages queued in either
\* direction are dropped; the handles and hooks are gone with the Provider,
\* an animation frame that was requested stays requested.
teardown ==
  /\ ~terminated
  /\ ops < MaxOps
  /\ terminated' = TRUE
  /\ toHost' = <<>>
  /\ toTransport' = <<>>
  /\ ops' = ops + 1
  /\ log' = <<>>
  /\ UNCHANGED <<hostVars, tableVars, viewVars, attached, mounted, rafPending, propVars, hooked>>

----------------------------------------------------------------------------
(* Specifications *)

Next ==
  \/ \E object \in Handles : \E args \in ArgsGiven(object) : useBodyEffect(object, args)
  \/ \E object \in Handles : useBodyCleanup(object)
  \/ \E object \in Handles, index \in Indices : apiPositionSet(object, index)
  \/ \E object \in Handles : apiRotationSet(object)
  \/ \E object \in Handles : apiSubscribe(object, "position")
  \/ \E object \in Handles : apiRotationSubscribe(object)
  \/ \E id \in unsubscribers : apiUnsubscribe(id)
  \/ setPaused
  \/ loop
  \/ workerOnMessage
  \/ onFrame
  \/ onCollide

Spec == Init /\ [][Next]_vars

NextLegacy ==
  \/ \E object \in Handles : \E args \in ArgsGiven(object) : useBodyEffect(object, args)
  \/ \E object \in Handles : useBodyCleanup(object)
  \/ \E object \in Handles, index \in Indices : apiPositionSet(object, index)
  \/ \E object \in Handles : apiRotationSet(object)
  \/ hostOnMessage
  \/ rafLoop
  \/ legacyOnFrame
  \/ legacyOnSync

SpecLegacy == InitLegacy /\ [][NextLegacy]_vars

\* The legacy Provider with its unmount.
NextTeardown ==
  \/ NextLegacy
  \/ teardown

SpecTeardown == InitLegacy /\ [][NextTeardown]_vars

\* The same with fair delivery: a message that is waiting, or an animation
\* frame that is requested, is not left waiting forever.  The host's weak
\* fairness is written out with its enabling condition: hostOnMessage can be
\* taken exactly when a message waits for a host that is not terminated.
SpecLegacyLive ==
  /\ SpecTeardown
  /\ WF_vars(legacyOnFrame \/ legacyOnSync \/ rafLoop)
  /\ ([]<>(toHost = <<>> \/ terminated) \/ []<><<hostOnMessage>>_vars)

\* Bodies created before a round of removals.
MaxBodies == 4

\* The identities of n plain bodies, in the order of their creation.
created(n) == [i \in 1..n |-> "b" \o ToString(i - 1)]

\* The orders in which the bodies of a list can be named, each once.
orders(list) ==
  {o \in [1..Len(list) -> Range(list)] : \A i, j \in 1..Len(list) : i # j => o[i] # o[j]}

\* n bodies have been created in one batch and the sync applied; one
\* removeBody per body has been posted, in any order.
InitRemoval ==
  \E n \in 1..MaxBodies :
    LET list == created(n)
        h == task([world |-> <<>>, bodies |-> <<>>, config |-> [step |-> "1/60"],
                   params |-> initProps, out |-> <<>>, threw |-> FALSE],
                  [op |-> "addBodies", type |-> "Box", uuid |-> list,
                   props |-> [i \in 1..n |-> serializableProps(fn("a", i - 1, <<>>),
                                                               [isArray |-> TRUE, value |-> <<1, 1, 1>>])]], TRUE)
    IN /\ world = h.world
       /\ bodies = h.bodies
       /\ config = h.config
       /\ params = h.params
       /\ bodiesCurrent = syncHandler(<<>>, h.out[1].bodies)
       /\ toHost \in {[k \in 1..n |-> [op |-> "removeBody", uuid |-> o[k]]] : o \in orders(list)}
  /\ observed = <<>>
  /\ toTransport = <<>>
  /\ refs = <<>>
  /\ events = <<>>
  /\ subscriptions = <<>>
  /\ incrementingId = 0
  /\ unsubscribers = {}
  /\ cancelled = {}
  /\ buffers = allocatedBuffers
  /\ attached = [o \in Handles |-> FALSE]
  /\ mounted = [o \in Handles |-> FALSE]
  /\ objects = [o \in Handles |->
                  [matrix |-> identity,
                   matrixAutoUpdate |-> TRUE,
                   instanceMatrix |-> IF isInstancedMesh(o)
                                        THEN [i \in 1..objectCount(o) |-> identity] ELSE <<>>,
                   needsUpdate |-> FALSE]]
  /\ rafPending = FALSE
  /\ isPaused = FALSE
  /\ shouldInvalidate = TRUE
  /\ timeSinceLastCalled = 0
  /\ terminated = FALSE
  /\ hooked = noHooks
  /\ ops = 0
  /\ log = <<>>

NextRemoval ==
  \/ hostOnMessage
  \/ legacyOnSync

SpecRemoval == InitRemoval /\ [][NextRemoval]_vars

\* Provider props that differ from the defaults in every global parameter.
tunedProps ==
  [gravity |-> <<0, 0, 0>>, tolerance |-> "0.01", step |-> "1/30", iterations |-> "10",
   broadphase |-> "SAP", allowSleep |-> FALSE]

\* What the worker may be sent: init with either set of props; a step after
\* a stall of one unit of time; a body "x" high above the ground and a batch
\* of MaxBodies bodies, each with a tag the switch knows or does not know; a
\* batch of boxes whose second member has args that are no array; removals
\* and pose changes of bodies that exist or of "z", which never does.
arrayArgs == [isArray |-> TRUE, value |-> <<1, 1, 1>>]
batchProps(malformed) ==
  [i \in 1..MaxBodies |->
     [args |-> IF i \in malformed THEN [isArray |-> FALSE, value |-> <<>>] ELSE arrayArgs,
      position |-> <<i, 1, 0>>, rotation |-> <<0, 0, 0>>]]
HostMessages ==
  <<[op |-> "init", props |-> initProps],
    [op |-> "init", props |-> tunedProps],
    [op |-> "step", positions |-> allocatedBuffers.positions,
     quaternions |-> allocatedBuffers.quaternions,
     props |-> [maxSubSteps |-> maxSubSteps, stepSize |-> "1/60", timeSinceLastCalled |-> 1]],
    [op |-> "addBody", type |-> "Box", uuid |-> "x",
     props |-> [args |-> arrayArgs, position |-> <<0, 12, 0>>, rotation |-> <<1, 0, 0>>]],
    [op |-> "addBody", type |-> "Blob", uuid |-> "x",
     props |-> [args |-> arrayArgs, position |-> <<0, 12, 0>>, rotation |-> <<1, 0, 0>>]],
    [op |-> "addBodies", type |-> "Sphere", uuid |-> created(MaxBodies), props |-> batchProps({})],
    [op |-> "addBodies", type |-> "Blob", uuid |-> created(MaxBodies), props |-> batchProps({})],
    [op |-> "addBodies", type |-> "Box", uuid |-> created(MaxBodies), props |-> batchProps({2})],
    [op |-> "removeBody", uuid |-> "x"],
    [op |-> "removeBody", uuid |-> "z"],
    [op |-> "removeBodies", uuid |-> created(MaxBodies)],
    [op |-> "setPosition", uuid |-> "x", props |-> <<5, 3, 5>>],
    [op |-> "setPosition", uuid |-> "z", props |-> <<5, 3, 5>>],
    [op |-> "setRotation", uuid |-> "x", props |-> <<0, 0, 0>>]>>

\* The identities an addBody or addBodies message creates.
creates(data) ==
  CASE data.op = "addBody" -> {data.uuid}
    [] data.op = "addBodies" -> Range(data.uuid)
    [] OTHER -> {}

\* self.onmessage = e => task(e), for a message of any sender; the log keeps
\* the message and an uncaught exception, toTransport what this call posted.
\* No identity is created while a body carries it.
onmessage(data) ==
  /\ ops < MaxOps
  /\ creates(data) \cap Range(worldUuids(world)) = {}
  /\ LET h == task(hostState, data, TRUE) IN
       /\ world' = h.world
       /\ bodies' = h.bodies
       /\ config' = h.config
       /\ params' = h.params
       /\ toTransport' = h.out
       /\ log' = <<[kind |-> "task", data |-> data]>> \o uncaught(h)
  /\ ops' = ops + 1
  /\ UNCHANGED <<observed, toHost, tableVars, viewVars, attached, mounted, rafPending, propVars,
                 lifeVars>>

InitHost ==
  /\ InitCommon
  /\ shouldInvalidate = TRUE
  /\ toHost = <<>>
  /\ buffers = allocatedBuffers
  /\ rafPending = FALSE

NextHost == \E k \in 1..Len(HostMessages) : onmessage(HostMessages[k])

SpecHost == InitHost /\ [][NextHost]_vars

\* The hooks that depend on bodies or stand alone: useConstraint, useSpring,
\* useRay, useRaycastVehicle and useContactMaterial, one mount of each, beside
\* the two body handles.

\* MathUtils.generateUUID(): an identity not drawn before; the n-th draw.
generateUUID(n) == "uuid-" \o ToString(n)

\* The hooks whose effect needs the handles it refers to: refA and refB of a
\* constraint or spring, the chassis and the wheel of a vehicle.
NeedsBodies == {"Constraint", "Spring", "RaycastVehicle"}

\* refA.current && refB.current; chassisBodyUUID && wheelUUIDs.every(isString)
bothAttached ==
  /\ getUUID(attached["a"], "a", <<>>) # Undefined
  /\ getUUID(attached["m"], "m", <<>>) # Undefined

\* The function body of a hook, run on every render: useConstraint draws a
\* new uuid each time, the hooks that keep theirs in useState draw it on the
\* first render only, and the vehicle's is the uuid of its ref.
render(h, kind) ==
  IF kind = "RaycastVehicle"
    THEN [h EXCEPT !.hook[kind].uuid = "vehicle"]
  ELSE IF kind = "Constraint" \/ h.hook[kind].uuid = Undefined
    THEN [generated |-> h.generated + 1,
          hook |-> [h.hook EXCEPT ![kind].uuid = generateUUID(h.generated)]]
  ELSE h

\* The uuid field of a hook's messages: `[ref.current.uuid]` for a vehicle.
uuidOf(kind, uuid) == IF kind = "RaycastVehicle" THEN <<uuid>> ELSE uuid

\* The effect of a hook: worker.add*({ ..., uuid }) with the uuid of the
\* render it belongs to, and a cleanup that holds on to that uuid; neither
\* when a handle it needs is unattached.
effect(h, kind) ==
  LET uuid == uuidOf(kind, h.hook[kind].uuid) IN
    IF kind \in NeedsBodies /\ ~bothAttached
      THEN [h |-> h, sent |-> <<>>]
      ELSE [h |-> [h EXCEPT !.hook[kind].effect = <<uuid>>],
            sent |-> <<[op |-> "add" \o kind, uuid |-> uuid]>>]

\* (variant of the cleanup that reads the uuid of the latest render)
cleanupLatest(h, kind) ==
  IF h.hook[kind].effect = <<>>
    THEN [h |-> h, sent |-> <<>>]
    ELSE [h |-> [h EXCEPT !.hook[kind].effect = <<>>],
          sent |-> <<[op |-> "remove" \o kind,
                      uuid |-> uuidOf(kind, h.hook[kind].uuid)]>>]

\* The cleanup an effect returned, if it returned one:
\* worker.remove*({ uuid }) with the uuid of its closure.
cleanup(h, kind) ==
  IF h.hook[kind].effect = <<>>
    THEN [h |-> h, sent |-> <<>>]
    ELSE [h |-> [h EXCEPT !.hook[kind].effect = <<>>],
          sent |-> <<[op |-> "remove" \o kind, uuid |-> h.hook[kind].effect[1]]>>]

\* events[uuid] = { rayhit: callback } and delete events[uuid] of useRay.
RECURSIVE rayEvents(_, _)
rayEvents(ev, sent) ==
  IF sent = <<>> THEN ev
  ELSE LET m == Head(sent)
           next == IF m.op = "addRay"
                     THEN [u \in DOMAIN ev \cup {m.uuid} |->
                             IF u = m.uuid THEN [rayhit |-> "callback"] ELSE ev[u]]
                   ELSE IF m.op = "removeRay" THEN deleteKey(ev, m.uuid)
                   ELSE ev
       IN rayEvents(next, Tail(sent))

\* What a commit of a hook leaves: its state, the messages posted, the events.
commit(h, sent) ==
  /\ hooked' = h
  /\ toHost' = toHost \o sent
  /\ events' = rayEvents(events, sent)
  /\ ops' = ops + 1
  /\ log' = <<>>
  /\ UNCHANGED <<hostVars, toTransport, refs, subscriptions, incrementingId, unsubscribers,
                 cancelled, viewVars, attached, mounted, rafPending, propVars, terminated>>

\* A component that uses the hook mounts: first render, then its effect.
hookMount(kind) ==
  /\ ops < MaxOps
  /\ hooked.hook[kind].uuid = Undefined
  /\ LET e == effect(render(hooked, kind), kind) IN commit(e.h, e.sent)

\* The component renders again with the same deps: no effect runs.
hookRender(kind) ==
  /\ ops < MaxOps
  /\ hooked.hook[kind].uuid # Undefined
  /\ commit(render(hooked, kind), <<>>)

\* The component renders again with changed deps: the cleanup of the last
\* effect, then the effect of this render.
hookDepsChange(kind) ==
  /\ ops < MaxOps
  /\ hooked.hook[kind].uuid # Undefined
  /\ LET c == cleanup(render(hooked, kind), kind)
         e == effect(c.h, kind)
     IN commit(e.h, c.sent \o e.sent)

\* The component unmounts: the cleanup of the last effect; its state is gone.
hookUnmount(kind) ==
  /\ ops < MaxOps
  /\ hooked.hook[kind].uuid # Undefined
  /\ LET c == cleanup(hooked, kind) IN
       commit([c.h EXCEPT !.hook[kind].uuid = Undefined], c.sent)

InitMirror ==
  /\ InitCommon
  /\ shouldInvalidate = TRUE
  /\ toHost = <<[op |-> "init", props |-> initProps]>>
  /\ buffers = allocatedBuffers
  /\ rafPending = FALSE

NextMirror ==
  \/ \E object \in Handles : \E args \in ArgsGiven(object) : useBodyEffect(object, args)
  \/ \E object \in Handles : useBodyCleanup(object)
  \/ \E kind \in HookKinds : hookMount(kind)
  \/ \E kind \in HookKinds : hookRender(kind)
  \/ \E kind \in HookKinds : hookDepsChange(kind)
  \/ \E kind \in HookKinds : hookUnmount(kind)

SpecMirror == InitMirror /\ [][NextMirror]_vars

\* The Transport's handlers under whatever the worker may emit: frames whose
\* observations name subscribed ids, an unknown id and other types, with
\* active true and false, and begin and end events between bodies.

\* A frame as the worker emits it: the buffers, the body list, `active`.
frameWith(active, observations) ==
  [op |-> "frame", positions |-> Float32Array(size * 3), quaternions |-> Float32Array(size * 4),
   bodies |-> <<"a">>, active |-> active, observations |-> observations]

collision(type, bodyA, bodyB) == [op |-> "event", type |-> type, bodyA |-> bodyA, bodyB |-> bodyB]

EmittedMessages ==
  <<frameWith(FALSE, <<<<0, <<1, 2, 3>>, "position">>, <<0, <<0, 0, 0, 1>>, "quaternion">>>>),
    frameWith(TRUE, <<<<0, <<0, 0, 0, 1>>, "quaternion">>, <<7, <<1, 2, 3>>, "position">>,
                      <<1, <<4, 5, 6>>, "velocity">>>>),
    frameWith(FALSE, <<<<1, <<1, 2, 3>>, "position">>, <<1, <<1, 2, 3>>, "position">>>>),
    collision("collideBegin", "a", "m/0"),
    collision("collideBegin", "m/0", "a"),
    collision("collideBegin", "m/0", "m/1"),
    collision("collideEnd", "a", "m/0")>>

\* The identities some addBodies message has named so far.
everAdded ==
  UNION {Range(toHost[k].uuid) : k \in {j \in 1..Len(toHost) : toHost[j].op = "addBodies"}}

\* worker.emit(type, data): the handler registered by worker.on runs. The
\* worker reports events only between bodies it was given.
emit(data) ==
  /\ ops < MaxOps
  /\ data.op = "event" => {data.bodyA, data.bodyB} \subseteq everAdded
  /\ LET t == IF data.op = "frame"
                THEN frameHandler(transportState, transportContext, data)
              ELSE IF data.type = "collideBegin"
                THEN collideBeginHandler(transportState, transportContext, data)
              ELSE collideEndHandler(transportState, transportContext, data)
     IN /\ bodiesCurrent' = t.bodiesCurrent
        /\ objects' = t.objects
        /\ log' = <<[kind |-> "emit", data |-> data]>> \o t.log
  /\ ops' = ops + 1
  /\ UNCHANGED <<hostVars, toHost, toTransport, tableVars, buffers, attached, mounted,
                 rafPending, propVars, lifeVars>>

InitEmit ==
  /\ InitCommon
  /\ shouldInvalidate = TRUE
  /\ toHost = <<[op |-> "init", props |-> initProps]>>
  /\ buffers = allocatedBuffers
  /\ rafPending = FALSE

NextEmit ==
  \/ \E object \in Handles : \E args \in ArgsGiven(object) : useBodyEffect(object, args)
  \/ \E object \in Handles : useBodyCleanup(object)
  \/ \E object \in Handles : apiSubscribe(object, "position")
  \/ \E object \in Handles : apiRotationSubscribe(object)
  \/ \E id \in unsubscribers : apiUnsubscribe(id)
  \/ \E k \in 1..Len(EmittedMessages) : emit(EmittedMessages[k])

SpecEmit == InitEmit /\ [][NextEmit]_vars

----------------------------------------------------------------------------
(* Properties *)

\* The host handles the message at the head of its queue in this step.
hostHandles(op) == toHost # <<>> /\ Head(toHost).op = op /\ toHost' = Tail(toHost)

\* The Transport handles the message at the head of its queue in this step.
transportHandles(op) ==
  toTransport # <<>> /\ Head(toTransport).op = op /\ toTransport' = Tail(toTransport)

count(q, op) == Cardinality({k \in 1..Len(q) : q[k].op = op})

\* No add or remove is waiting for the host and no sync for the Transport.
membershipSettled ==
  /\ \A k \in 1..Len(toHost) :
       toHost[k].op \notin {"addBody", "addBodies", "removeBody", "removeBodies"}
  /\ count(toTransport, "sync") = 0

\* C1: once the sync of the last add or remove has been applied, the
\* registry maps exactly the identities of the world's bodies, each to its
\* position in the world's order, one to one onto 0..bodyCount-1.
C1_RegistryBijection ==
  membershipSettled =>
    /\ DOMAIN bodiesCurrent = Range(worldUuids(world))
    /\ \A i \in 1..Len(world) : bodiesCurrent[world[i].uuid] = i - 1
    /\ {bodiesCurrent[u] : u \in DOMAIN bodiesCurrent} = 0..(Len(world) - 1)
    /\ Cardinality(DOMAIN bodiesCurrent) = Len(world)

\* A body was removed from the front of the world and the others re-indexed.
C1_Reindexed ==
  /\ membershipSettled
  /\ worldUuids(world) = uuidList("m")
  /\ attached["a"]
  /\ bodiesCurrent["m/0"] = 0

\* C2: every pose the frame handler writes uses, as index, the position of
\* the handle's identity in the body list of the frame being applied.
C2_IndexFromFrameList ==
  [][transportHandles("frame") =>
       \A k \in 1..Len(log') :
         log'[k].kind \in {"matrix", "setMatrixAt"} =>
           LET id == IF log'[k].kind = "matrix" THEN log'[k].object
                     ELSE log'[k].object \o "/" \o ToString(log'[k].slot)
               list == Head(toTransport).bodies
           IN id \in Range(list) /\ indexOf(list, id) = log'[k].index]_vars

\* C3: the buffers are in exactly one place: with the Transport, in a step
\* on its way to the host, or in a frame on its way back.
C3_BatonHeldOnce ==
  count(toHost, "step") + count(toTransport, "frame")
    + (IF holdsBuffers(buffers) THEN 1 ELSE 0) = 1

\* A step is in flight whose buffers the host has already written once.
C3_SecondStepInFlight ==
  \E k \in 1..Len(toHost) :
    toHost[k].op = "step" /\ toHost[k].positions # Float32Array(size * 3)

\* C4: handling addBodies posts exactly one sync, listing the identities
\* that were present followed by the batch in its order.
C4_BatchSyncOnce ==
  [][hostHandles("addBodies") =>
       toTransport' = Append(toTransport,
                             [op |-> "sync",
                              bodies |-> worldUuids(world) \o Head(toHost).uuid])]_vars

\* A sync lists an earlier body followed by the whole batch of the replicas.
C4_BatchSynced ==
  \E k \in 1..Len(toTransport) :
    /\ toTransport[k].op = "sync"
    /\ toTransport[k].bodies = <<"a">> \o uuidList("m")

\* C5: handling removeBody or removeBodies posts exactly one sync.
C5_RemoveSyncOnce ==
  [][hostHandles("removeBody") \/ hostHandles("removeBodies") =>
       /\ Len(toTransport') = Len(toTransport) + 1
       /\ toTransport'[Len(toTransport')] = [op |-> "sync", bodies |-> worldUuids(world')]]_vars

\* The identities a mutation or removal names.
named(data) == IF data.op = "removeBodies" THEN Range(data.uuid) ELSE {data.uuid}

\* C6: a mutation or removal naming an identity the host does not know
\* raises nothing and leaves the world and the table as they were.
C6_UnknownIdentityNoOp ==
  [][(/\ \E op \in {"setPosition", "setRotation", "removeBody", "removeBodies"} : hostHandles(op)
      /\ \E u \in named(Head(toHost)) : u \notin DOMAIN bodies)
       => /\ \A k \in 1..Len(log') : log'[k].kind # "TypeError"
          /\ UNCHANGED <<world, bodies>>]_vars

\* C7: no observation invokes the callback of a subscription whose
\* unsubscribe function has run.
C7_NoOrphanCallback ==
  \A k \in 1..Len(log) : log[k].kind = "observation" => log[k].id \notin cancelled

\* A frame brought an observation of a cancelled subscription.
C7_OrphanObserved ==
  \E k \in 1..Len(log) : log[k].kind = "unrouted" /\ log[k].id \in cancelled

\* C8: when the callback of "a" fires for a collision with a replica of "m",
\* the target it receives is the handle "m", the other body's own handle.
C8_TargetIsOther ==
  \A k \in 1..Len(log) :
    (log[k].kind = "collide" /\ log[k].cb = "onCollide_a") => log[k].target = "m"

\* C9: a frame with active = false changes no handle and requests no redraw.
C9_InactiveFrameWritesNothing ==
  [][(transportHandles("frame") /\ ~Head(toTransport).active)
       => /\ UNCHANGED objects
          /\ \A k \in 1..Len(log') :
               log'[k].kind \notin {"matrix", "setMatrixAt", "needsUpdate", "invalidate"}]_vars

\* An inactive frame was handled with handles registered, all of them with an
\* index, and redraws asked for.
C9_InactiveHandled ==
  /\ log # <<>>
  /\ log[1].kind = "frame"
  /\ ~log[1].active
  /\ shouldInvalidate
  /\ mounted["a"] /\ mounted["m"]
  /\ keysOf(refs) \subseteq DOMAIN bodiesCurrent

\* C10: an active frame writes each replica of a fully registered instanced
\* handle once and marks its instance matrix dirty once, after the writes.
C10_OneWritePerReplica ==
  (/\ log # <<>>
   /\ log[1].kind = "frame"
   /\ log[1].active
   /\ mounted["m"]
   /\ Range(uuidList("m")) \subseteq DOMAIN bodiesCurrent)
    => LET writes == {k \in 1..Len(log) : log[k].kind = "setMatrixAt" /\ log[k].object = "m"}
           marks == {k \in 1..Len(log) : log[k].kind = "needsUpdate" /\ log[k].object = "m"}
       IN /\ Cardinality(writes) = InstanceCount
          /\ Cardinality(marks) = 1
          /\ \A w \in writes, d \in marks : w < d

\* The pose held by slot i of the buffers of the frame at the head of the
\* Transport's queue, with a scale.
framePose(i, scale) ==
  LET p == Head(toTransport).positions
      q == Head(toTransport).quaternions
  IN [position |-> <<p[3 * i + 1], p[3 * i + 2], p[3 * i + 3]>>,
      quaternion |-> <<q[4 * i + 1], q[4 * i + 2], q[4 * i + 3], q[4 * i + 4]>>,
      scale |-> scale]

\* After this step every registered handle with an index holds the pose of
\* its slot of the frame, a replica with the scale replicaScale.
posesApplied(replicaScale) ==
  \A k \in 1..Len(refs) :
    LET ref == refs[k][2] IN
    IF isInstancedMesh(ref)
      THEN \A i \in 0..(objectCount(ref) - 1) :
             LET id == ref \o "/" \o ToString(i) IN
             id \in DOMAIN bodiesCurrent' =>
               objects'[ref].instanceMatrix[i + 1] = framePose(bodiesCurrent'[id], replicaScale)
      ELSE ref \in DOMAIN bodiesCurrent' =>
             objects'[ref].matrix = framePose(bodiesCurrent'[ref], objectScale(ref))

\* The handler of this step asked for a redraw exactly once if shouldInvalidate
\* is set and not at all otherwise.
redrawAsConfigured ==
  Cardinality({k \in 1..Len(log') : log'[k].kind = "invalidate"})
    = IF shouldInvalidate THEN 1 ELSE 0

\* C11: an active frame gives every handle that has an index, and every
\* replica that has one, the pose of its slot with the handle's own scale,
\* and a redraw is requested exactly when shouldInvalidate is set.
C11_OwnScale ==
  [][(transportHandles("frame") /\ Head(toTransport).active)
       => posesApplied(objectScale("m")) /\ redrawAsConfigured]_vars

\* C11 (amended): an active frame gives every plain handle that has an index
\* the pose of its slot with the handle's own scale, and every replica that
\* has an index the pose of its slot with the unit scale `s`; a redraw is
\* requested exactly when shouldInvalidate is set.
C11_PoseFromSlices ==
  [][(transportHandles("frame") /\ Head(toTransport).active)
       => posesApplied(s) /\ redrawAsConfigured]_vars

\* An active frame wrote the plain handle and a replica and asked for a redraw.
C11_PosesApplied ==
  /\ log # <<>>
  /\ log[1].kind = "frame"
  /\ log[1].active
  /\ \E k \in 1..Len(log) : log[k].kind = "matrix" /\ log[k].object = "a"
  /\ \E k \in 1..Len(log) : log[k].kind = "setMatrixAt" /\ log[k].object = "m"
  /\ \E k \in 1..Len(log) : log[k].kind = "invalidate"

\* C12: once a frame's body list is processed the registry maps exactly the
\* identities of that list, each to its position, and nothing else.
C12_RegistryIsList ==
  [][transportHandles("frame") =>
       LET list == Head(toTransport).bodies IN
       /\ DOMAIN bodiesCurrent' = Range(list)
       /\ \A i \in 1..Len(list) : bodiesCurrent'[list[i]] = i - 1]_vars

\* C13: a frame leaves a registered handle without an index, and a replica
\* slot without one, as it was, throws nothing, and still applies the
\* handles that have an index.
C13_NoIndexSkipped ==
  [][transportHandles("frame") =>
       /\ \A k \in 1..Len(refs) :
            LET ref == refs[k][2] IN
            IF isInstancedMesh(ref)
              THEN \A i \in 0..(objectCount(ref) - 1) :
                     (ref \o "/" \o ToString(i)) \notin DOMAIN bodiesCurrent' =>
                       objects'[ref].instanceMatrix[i + 1] = objects[ref].instanceMatrix[i + 1]
              ELSE ref \notin DOMAIN bodiesCurrent' =>
                     /\ objects'[ref].matrix = objects[ref].matrix
                     /\ objects'[ref].matrixAutoUpdate = objects[ref].matrixAutoUpdate
       /\ \A k \in 1..Len(log') : log'[k].kind # "TypeError"
       /\ Head(toTransport).active => posesApplied(s)]_vars

\* An active frame wrote the replicas while the plain handle, registered but
\* not yet known to the host, kept the matrix its mount gave it.
C13_SkippedBesideApplied ==
  /\ log # <<>>
  /\ log[1].kind = "frame"
  /\ log[1].active
  /\ "a" \in keysOf(refs)
  /\ "a" \notin DOMAIN bodiesCurrent
  /\ objects["a"].matrix = prepare(objectScale("a"), fn("a", 0, <<>>))
  /\ \E k \in 1..Len(log) : log[k].kind = "setMatrixAt" /\ log[k].object = "m"

\* C14: while the Provider is paused no step is called or posted; a tick
\* that is not paused calls worker.step exactly once, with the tick's delta
\* as timeSinceLastCalled, and the step message it posts carries that delta.
C14_StepPerTick ==
  [][/\ isPaused =>
          /\ count(toHost', "step") <= count(toHost, "step")
          /\ \A k \in 1..Len(log') : log'[k].kind \notin {"tick", "step"}
     /\ (log' # <<>> /\ log'[1].kind = "tick") =>
          /\ Len(log') = 2
          /\ log'[2] = stepCalled(log'[1].delta)
          /\ \/ toHost' = toHost
             \/ /\ Len(toHost') = Len(toHost) + 1
                /\ toHost'[Len(toHost')].op = "step"
                /\ toHost'[Len(toHost')].props.timeSinceLastCalled = log'[1].delta]_vars

\* A tick posted a step after the Provider had been paused and resumed.
C14_ResumedAfterPause ==
  /\ log # <<>>
  /\ log[1].kind = "tick"
  /\ Len(log) = 2
  /\ ops >= 2
  /\ ~isPaused
  /\ toHost # <<>>
  /\ toHost[Len(toHost)].op = "step"

\* C15: in a round that removes the created bodies one by one, whenever every
\* sync has been applied the world holds exactly the bodies whose removal is
\* still to come, in the order of their creation, the host's table names
\* the same bodies, and the registry maps each of them to its position: the
\* state after removing a set of bodies is the same for every order of
\* removal, and it is empty once all are removed.
C15_RemovalOrderFree ==
  count(toTransport, "sync") = 0 =>
    LET remaining == {toHost[k].uuid : k \in 1..Len(toHost)}
        kept == SelectSeq(created(MaxBodies), LAMBDA u : u \in remaining)
    IN /\ worldUuids(world) = kept
       /\ DOMAIN bodies = remaining
       /\ DOMAIN bodiesCurrent = remaining
       /\ \A i \in 1..Len(kept) : bodiesCurrent[kept[i]] = i - 1
       /\ toHost = <<>> => (world = <<>> /\ bodies = <<>> /\ bodiesCurrent = <<>>)

\* Every body of the batch has been removed and every sync applied.
C15_AllRemoved ==
  /\ toHost = <<>>
  /\ toTransport = <<>>
  /\ world = <<>>
  /\ bodies = <<>>
  /\ bodiesCurrent = <<>>

\* C16: every subscribe records its callback under an id that is not in the
\* subscription table: the table gains one entry and keeps all it had.
C16_FreshSubscriptionId ==
  [][incrementingId' # incrementingId =>
       /\ \A id \in DOMAIN subscriptions :
            id \in DOMAIN subscriptions' /\ subscriptions'[id] = subscriptions[id]
       /\ Cardinality(DOMAIN subscriptions') = Cardinality(DOMAIN subscriptions) + 1]_vars

\* A vector subscription and a rotation subscription are live together.
C16_TwoLive ==
  \E i, j \in DOMAIN subscriptions :
    /\ i # j
    /\ "position" \in DOMAIN subscriptions[i]
    /\ "quaternion" \in DOMAIN subscriptions[j]

\* C17: every participant a collide callback receives (body, target and the
\* contact's bi and bj) is a handle object.
C17_HandlesInCallbacks ==
  \A k \in 1..Len(log) :
    log[k].kind = "collide" =>
      {log[k].body, log[k].target, log[k].bi, log[k].bj} \subseteq Handles

\* The message a step has appended to the worker's queue, if it appended one.
posted(before, after) ==
  IF Len(after) = Len(before) + 1 THEN <<after[Len(after)]>> ELSE <<>>

\* C18: refs holds a body identity exactly when events does; the identities
\* an addBodies message names are in both tables when it is posted, and the
\* identities a removeBodies message names are in neither when it is posted.
C18_TablesBracketMessages ==
  [][/\ keysOf(refs') = DOMAIN events'
     /\ \A k \in 1..Len(posted(toHost, toHost')) :
          LET sent == posted(toHost, toHost')[k] IN
            /\ sent.op = "addBodies" =>
                 /\ Range(sent.uuid) \subseteq keysOf(refs')
                 /\ Range(sent.uuid) \subseteq DOMAIN events'
            /\ sent.op = "removeBodies" =>
                 /\ Range(sent.uuid) \cap keysOf(refs') = {}
                 /\ Range(sent.uuid) \cap DOMAIN events' = {}]_vars

\* The removal of "a" has just been posted while the members of "m", which
\* has no callback, are registered in both tables.
C18_Bracketed ==
  /\ mounted["m"]
  /\ Range(uuidList("m")) \subseteq keysOf(refs) \cap DOMAIN events
  /\ toHost # <<>>
  /\ toHost[Len(toHost)] = [op |-> "removeBodies", uuid |-> uuidList("a")]
  /\ "a" \notin keysOf(refs) \cup DOMAIN events

\* The handle an addBodies message was built for.
builtFor(message) == CHOOSE object \in Handles : uuidList(object) = message.uuid

\* C19: a descriptor of an addBodies message has no onCollideBegin and no
\* onCollideEnd field and its onCollide is a boolean, true exactly when fn
\* supplied an onCollide callback; the callbacks of a mounted handle are in
\* the events table.
C19_FlagsNotCallbacks ==
  /\ \A k \in 1..Len(toHost) :
       toHost[k].op = "addBodies" =>
         \A i \in 1..Len(toHost[k].props) :
           LET descriptor == toHost[k].props[i]
               props == fn(builtFor(toHost[k]), i - 1, <<>>)
           IN /\ DOMAIN descriptor = {"args", "position", "rotation", "onCollide"}
              /\ descriptor.onCollide \in BOOLEAN
              /\ descriptor.onCollide = (props.onCollide # Undefined)
  /\ \A object \in Handles :
       mounted[object] =>
         \A i \in 1..Len(uuidList(object)) :
           LET props == fn(object, i - 1, <<>>)
           IN events[uuidList(object)[i]] = [collide |-> props.onCollide,
                                             collideBegin |-> props.onCollideBegin,
                                             collideEnd |-> props.onCollideEnd]

\* The addBodies messages of both handles are queued: the one of "a", which
\* has callbacks, flags onCollide and the one of "m" does not.
C19_BothQueued ==
  /\ Len(toHost) = 2
  /\ toHost[1].op = "addBodies" /\ toHost[1].uuid = uuidList("a")
  /\ toHost[1].props[1].onCollide
  /\ toHost[2].op = "addBodies" /\ toHost[2].uuid = uuidList("m")
  /\ ~toHost[2].props[1].onCollide
  /\ events["a"].collide = "onCollide_a"
  /\ events["a"].collideBegin = "onCollideBegin_a"

\* C20: the setup of a sphere whose args are no array throws and posts
\* nothing, and every addBodies message for spheres carries an array of args.
C20_MalformedArgsThrow ==
  [][/\ (log' # <<>> /\ log'[1].kind = "Error") =>
          /\ toHost' = toHost
          /\ mounted' = mounted
     /\ \A k \in 1..Len(posted(toHost, toHost')) :
          LET sent == posted(toHost, toHost')[k] IN
            (sent.op = "addBodies" /\ sent.type = "Sphere") =>
              \A i \in 1..Len(sent.props) : sent.props[i].args.isArray]_vars

\* The setup of "m" has thrown on its first member with nothing queued.
C20_Thrown ==
  /\ log # <<>>
  /\ log[1].kind = "Error"
  /\ ~mounted["m"]
  /\ toHost = <<>>
  /\ "m/0" \in keysOf(refs)

\* The message the host has handled in this step, if it handled one, and
\* whether the handler ran to its end.
taken(l) == IF l # <<>> /\ l[1].kind = "task" THEN <<l[1].data>> ELSE <<>>
completed(l) == \A k \in 1..Len(l) : l[k].kind # "TypeError"

\* C21: an addBody or addBodies with a tag the switch does not know appends
\* one body per member to the world, with no shape and with the member's
\* identity and pose, and posts one sync that lists the world.
C21_UnknownTagStillBody ==
  [][\A k \in 1..Len(taken(log')) :
       LET data == taken(log')[k]
           uuid == IF data.op = "addBody" THEN <<data.uuid>> ELSE data.uuid
           props == IF data.op = "addBody" THEN <<data.props>> ELSE data.props
       IN (data.op \in {"addBody", "addBodies"} /\ data.type \notin KnownShapeTypes) =>
            /\ world' = world \o [i \in 1..Len(uuid) |->
                                    [uuid |-> uuid[i], shapes |-> 0,
                                     position |-> props[i].position,
                                     quaternion |-> setFromEuler(props[i].rotation)]]
            /\ toTransport' = <<[op |-> "sync", bodies |-> worldUuids(world')]>>
            /\ Range(uuid) \subseteq DOMAIN bodies']_vars

\* A batch with an unknown tag has been added to a world that holds a box.
C21_ShapelessBeside ==
  /\ Len(world) = MaxBodies + 1
  /\ world[1].shapes = 1
  /\ \A i \in 2..Len(world) : world[i].shapes = 0
  /\ DOMAIN bodies = Range(worldUuids(world))

\* C22: a step posts one frame with both buffers, in which every body of
\* the world has its position at 3i and its quaternion at 4i, i its place in
\* the world.
C22_FrameCarriesPoses ==
  [][\A k \in 1..Len(taken(log')) :
       LET data == taken(log')[k] IN
       data.op = "step" =>
         /\ Len(toTransport') = 1
         /\ toTransport'[1].op = "frame"
         /\ Len(toTransport'[1].positions) = Len(data.positions)
         /\ Len(toTransport'[1].quaternions) = Len(data.quaternions)
         /\ \A i \in 1..Len(world') :
              /\ 3 * i <= Len(toTransport'[1].positions)
              /\ 4 * i <= Len(toTransport'[1].quaternions)
              /\ fromArray(toTransport'[1].positions, 3 * (i - 1), 3) = world'[i].position
              /\ fromArray(toTransport'[1].quaternions, 4 * (i - 1), 4) = world'[i].quaternion]_vars

\* C23: in the frame of a step the buffers are as long as the world needs:
\* three numbers and four numbers per body.
C23_BufferLengths ==
  [][\A k \in 1..Len(taken(log')) :
       taken(log')[k].op = "step" =>
         /\ Len(toTransport'[1].positions) = 3 * Len(world')
         /\ Len(toTransport'[1].quaternions) = 4 * Len(world')]_vars

\* C24: a step that reports more elapsed time than maxSubSteps sub-steps
\* cover moves no body by more than maxSubSteps sub-steps (a sub-step is one
\* unit of fall).
C24_SubStepsCapped ==
  [][\A k \in 1..Len(taken(log')) :
       LET data == taken(log')[k] IN
       (data.op = "step"
          /\ data.props.timeSinceLastCalled * stepsPerUnit > data.props.maxSubSteps) =>
         /\ Len(world') = Len(world)
         /\ \A i \in 1..Len(world) :
              world[i].position[2] - world'[i].position[2] <= data.props.maxSubSteps]_vars

\* A stalled step has been taken with a body more than maxSubSteps sub-steps
\* above the ground.
C24_StalledAloft ==
  /\ taken(log) # <<>>
  /\ taken(log)[1].op = "step"
  /\ \E i \in 1..Len(world) : world[i].position[2] > maxSubSteps

\* C27: an init changes the global parameters and the step size to what it
\* carries and leaves the world and the identity table as they were; it
\* posts nothing.
C27_InitKeepsBodies ==
  [][\A k \in 1..Len(taken(log')) :
       LET data == taken(log')[k] IN
       data.op = "init" =>
         /\ world' = world
         /\ bodies' = bodies
         /\ toTransport' = <<>>
         /\ config' = [step |-> data.props.step]
         /\ params'.gravity = data.props.gravity
         /\ params'.broadphase = data.props.broadphase]_vars

\* A second init has changed the parameters of a world that holds bodies.
C27_HotSwapped ==
  /\ taken(log) # <<>>
  /\ taken(log)[1].op = "init"
  /\ world # <<>>
  /\ params.broadphase = "SAP"
  /\ config.step = "1/30"

\* C28: after every operation the host completed, the identity table holds
\* exactly the identities of the bodies of the world.
C28_TableMatchesWorld ==
  [][(taken(log') # <<>> /\ completed(log')) =>
       DOMAIN bodies' = Range(worldUuids(world'))]_vars

\* C25: once the Provider's cleanup has run, nothing is posted to the worker
\* and no handler of the Transport runs.
C25_NothingAfterTeardown ==
  [][terminated =>
       /\ toHost' = toHost
       /\ toTransport' = toTransport
       /\ log' = <<>>]_vars

\* Where the baton of the legacy loop is: a step on its way to the host, a
\* frame on its way back, or an animation frame requested.
stepInFlight == count(toHost, "step")
frameInFlight == count(toTransport, "frame")
loopRequested == IF rafPending THEN 1 ELSE 0

\* C29: until the Provider is torn down there is exactly one of a step in
\* flight, a frame in flight and a requested animation frame, and again and
\* again a step is in flight and again and again a frame is: the baton
\* keeps going round from step to frame to the next step.
C29_LoopNeverStalls ==
  /\ [](~terminated => stepInFlight + frameInFlight + loopRequested = 1)
  /\ []<>(stepInFlight = 1 \/ terminated)
  /\ []<>(frameInFlight = 1 \/ terminated)

\* The host has just thrown on an operation that names no body while the
\* frame of the step before it is on its way.
C29_FrameBesideThrow ==
  /\ ~terminated
  /\ frameInFlight = 1
  /\ log # <<>>
  /\ log[Len(log)].kind = "TypeError"


\* The identities a handle registers with its addBodies message.
registeredBy(object) == Range(uuidList(object))

\* C26: every message sent through a handle's api, api.at(i) included, names
\* an identity that the same handle registered: the identities uuid/0 ..
\* uuid/(N-1) of a replicated handle, the uuid of a plain one.
C26_ApiNamesRegistered ==
  \A k \in 1..Len(toHost) :
    toHost[k].op \in {"setPosition", "setRotation", "subscribe"}
      => \E object \in Handles : toHost[k].uuid \in registeredBy(object)


\* What removal mirrors: the bodies of a handle and the five dependent hooks.
MirroredKinds == HookKinds \cup {"Bodies"}

\* The identities named by the add and remove messages of a kind.
identitiesSent(kind) ==
  {toHost[k].uuid : k \in {j \in 1..Len(toHost) :
                              toHost[j].op \in {"add" \o kind, "remove" \o kind}}}

\* How many of the first p messages are `<verb><kind>` for an identity.
sentOf(verb, kind, uuid, p) ==
  Cardinality({k \in 1..p : toHost[k].op = verb \o kind /\ toHost[k].uuid = uuid})

\* A mount whose effect added the identity has not been cleaned up yet.
held(kind, uuid) ==
  IF kind = "Bodies"
    THEN \E object \in Handles : mounted[object] /\ uuidList(object) = uuid
    ELSE hooked.hook[kind].effect = <<uuid>>

\* C30: removal mirrors creation. Among the messages sent so far, at every
\* point, an identity has been removed at most as often as it was added
\* before, so every remove* answers an add* of the same kind and identity
\* and none answers the same add* twice; and the adds not answered yet are
\* exactly those of the mounts whose cleanup has not run, one each. A mount
\* whose effect sent no add* therefore sends no remove*.
C30_RemovalMirrorsCreation ==
  \A kind \in MirroredKinds : \A uuid \in identitiesSent(kind) :
    /\ \A p \in 0..Len(toHost) :
         sentOf("remove", kind, uuid, p) <= sentOf("add", kind, uuid, p)
    /\ sentOf("add", kind, uuid, Len(toHost)) - sentOf("remove", kind, uuid, Len(toHost))
         = IF held(kind, uuid) THEN 1 ELSE 0

\* A constraint between two attached handles was rendered more than once and
\* its removal has been sent.
C30_ConstraintRemovedAfterRerender ==
  /\ hooked.generated >= 2
  /\ \E k \in 1..Len(toHost) : toHost[k].op = "removeConstraint"


\* C34: when the setup of an entity fails on the Transport side, because
\* the argument function throws for one of its members, the refs table and
\* the event table are as before the call and no message is sent.
C34_FailedSetupLeavesNothing ==
  [][(log' # <<>> /\ log'[1].kind = "Error")
       => /\ refs' = refs
          /\ events' = events
          /\ toHost' = toHost]_vars


\* A subscribe message for the id was sent: it waits for the worker, or the
\* worker has it in its table (it leaves that table only by an unsubscribe,
\* which the Transport sends after deleting its own entry).
subscribeSent(id) ==
  \/ \E k \in 1..Len(toHost) : toHost[k].op = "subscribe" /\ toHost[k].props.id = id
  \/ id \in DOMAIN observed

\* C33: a callback is in the subscription table under an id only from a
\* subscribe call whose subscribe message was sent, and an unsubscribe
\* message for an id comes after a subscribe message for it; also when
\* subscribe is called while the handle has no identity yet.
C33_SubscribeBeforeUnsubscribe ==
  /\ \A id \in DOMAIN subscriptions : subscribeSent(id)
  /\ \A k \in 1..Len(toHost) :
       toHost[k].op = "unsubscribe" =>
         \/ \E j \in 1..(k - 1) : toHost[j].op = "subscribe" /\ toHost[j].props.id = toHost[k].props
         \/ toHost[k].props \in DOMAIN observed


\* The message the Transport's handler was run for in this step, if any.
emitted(l) == IF l # <<>> /\ l[1].kind = "emit" THEN <<l[1].data>> ELSE <<>>

\* What the frame handler did with the observations, one entry each.
dispatched(l) == SelectSeq(l, LAMBDA entry : entry.kind \in {"observation", "unrouted"})

\* C31: for each observation [id, value, type] of a frame, active or not,
\* the handler invokes the callback the subscription table holds under id
\* for `type`, with the value, and nothing else; where the id is unknown or
\* the table holds another type under it nothing is invoked; no error.
C31_ObservationToItsCallback ==
  [][\A data \in Range(emitted(log')) :
       data.op = "frame" =>
         LET done == dispatched(log') IN
           /\ Len(done) = Len(data.observations)
           /\ \A k \in 1..Len(done) :
                LET id == data.observations[k][1]
                    type == data.observations[k][3]
                    stored == id \in DOMAIN subscriptions /\ type \in DOMAIN subscriptions[id]
                IN /\ (done[k].kind = "observation") = stored
                   /\ stored => /\ done[k].cb = subscriptions[id][type]
                                 /\ done[k].value = data.observations[k][2]
           /\ \A k \in 1..Len(log') : log'[k].kind \notin {"TypeError", "Error"}]_vars

\* A frame with active = false was handled: one observation reached its
\* callback, another named a subscribed id with a type not stored under it.
C31_InactiveRoutedAndNot ==
  /\ emitted(log) # <<>>
  /\ emitted(log)[1].op = "frame"
  /\ ~emitted(log)[1].active
  /\ \E k \in 1..Len(log) : log[k].kind = "observation"
  /\ \E k \in 1..Len(log) : log[k].kind = "unrouted" /\ log[k].id \in DOMAIN subscriptions

\* The handle that registered an identity.
handleOf(uuid) == CHOOSE object \in Handles : uuid \in registeredBy(object)

\* The callbacks a begin or end event invoked for a participant.
invokedFor(l, owner) ==
  SelectSeq(l, LAMBDA entry : entry.kind \in {"collideBegin", "collideEnd"} /\ entry.owner = owner)

\* C32: a collideBegin or collideEnd event for (A, B) invokes the callback
\* of each participant that registered one for it, once, with target = the
\* owner's handle and body = the other participant's handle; a participant
\* without a record or without such a callback is skipped, no error is
\* raised and the other participant's callback is still invoked.
C32_BeginEndBothSides ==
  [][\A data \in Range(emitted(log')) :
       data.op = "event" =>
         /\ \A pair \in {<<data.bodyA, data.bodyB>>, <<data.bodyB, data.bodyA>>} :
              LET cb == eventCallback(events, pair[1], data.type)
                  calls == invokedFor(log', pair[1])
              IN IF cb = Undefined THEN calls = <<>>
                 ELSE /\ Len(calls) = 1
                      /\ calls[1].kind = data.type
                      /\ calls[1].cb = cb
                      /\ calls[1].target = handleOf(pair[1])
                      /\ calls[1].body = handleOf(pair[2])
         /\ \A k \in 1..Len(log') : log'[k].kind \notin {"TypeError", "Error"}]_vars

====
